---------------------------- MODULE Spec2Model ----------------------------
(***************************************************************************)
(* RadControl native backend: the O2 dispatcher (commands/o2.rs), the      *)
(* capturing shell runner (shell.rs; its older copy run_shell in lib.rs)   *)
(* and the port inspector (commands/ports.rs; its older copy in lib.rs).   *)
(*                                                                         *)
(* Text is modelled as a sequence of one-character strings, so that        *)
(* split, trim, contains and format! are computed character by character.  *)
(* Option<T> is a sequence of length 0 (None) or 1 (Some).                 *)
(***************************************************************************)
EXTENDS Integers, Sequences, FiniteSets, TLC

VARIABLES
    pc,       \* position of the current invocation
    op,       \* the command being served
    key,      \* run_o2: the raw key text
    parsed,   \* run_o2: result of parse_o2_key
    script,   \* run_o2: result of verb_to_script
    spawned,  \* command texts handed to Command::new("bash") by this invocation
    child,    \* what the child process produced (Option)
    result,   \* Result<String, String> of run_o2 / run_shell_output (Option)
    record    \* Result<PortStatus, String> of port_status (Option)

vars == <<pc, op, key, parsed, script, spawned, child, result, record>>

----------------------------------------------------------------------------
\* Bounds of the explored inputs.

\* longest run of whitespace put around a key or around its tokens
MaxPad == 1
\* largest number of '.' separators put between the two tokens of a key
MaxDots == 2
\* longest key enumerated exhaustively over RawAlphabet
MaxRaw == 3
\* longest child stdout / stderr enumerated exhaustively over OutAlphabet
MaxOut == 2
\* largest number of fragments joined into one socket-listing text
MaxFrags == 2

----------------------------------------------------------------------------
\* Option and Result values.

None == <<>>

Some(x) == <<x>>

Ok(t) == [tag |-> "Ok", text |-> t]

Err(m) == [tag |-> "Err", text |-> m]

----------------------------------------------------------------------------
\* Character classes and text primitives of the Rust standard library.

AsciiLower ==
    {"a", "b", "c", "d", "e", "f", "g", "h", "i", "j", "k", "l", "m",
     "n", "o", "p", "q", "r", "s", "t", "u", "v", "w", "x", "y", "z"}

AsciiDigit == {"0", "1", "2", "3", "4", "5", "6", "7", "8", "9"}

\* char::is_whitespace, restricted to the ASCII members of White_Space
WhiteSpace == {" ", "\t", "\n", "\r"}

RECURSIVE TrimStart(_)
TrimStart(s) ==
    IF s = <<>> THEN <<>>
    ELSE IF Head(s) \in WhiteSpace THEN TrimStart(Tail(s))
    ELSE s

RECURSIVE TrimEnd(_)
TrimEnd(s) ==
    IF s = <<>> THEN <<>>
    ELSE IF s[Len(s)] \in WhiteSpace THEN TrimEnd(SubSeq(s, 1, Len(s) - 1))
    ELSE s

\* str::trim
Trim(s) == TrimEnd(TrimStart(s))

\* str::starts_with, at offset i (1-based)
MatchAt(s, pat, i) ==
    /\ i + Len(pat) - 1 <= Len(s)
    /\ SubSeq(s, i, i + Len(pat) - 1) = pat

\* str::contains
Contains(s, pat) == \E i \in 1..(Len(s) + 1) : MatchAt(s, pat, i)

\* str::find: Some(0-based offset of the first match) or None
Find(s, pat) ==
    IF Contains(s, pat)
    THEN Some((CHOOSE i \in 1..(Len(s) + 1) :
                  /\ MatchAt(s, pat, i)
                  /\ \A j \in 1..(i - 1) : ~MatchAt(s, pat, j)) - 1)
    ELSE None

\* str::split(pat).collect(), pat non-empty: the pieces between the
\* non-overlapping matches of pat, scanned left to right
RECURSIVE Split(_, _)
Split(s, pat) ==
    LET f == Find(s, pat) IN
    IF f = None THEN <<s>>
    ELSE <<SubSeq(s, 1, f[1])>>
         \o Split(SubSeq(s, f[1] + Len(pat) + 1, Len(s)), pat)

\* Iterator::nth (0-based)
Nth(parts, n) == IF n + 1 <= Len(parts) THEN Some(parts[n + 1]) ELSE None

\* str::lines: split on "\n", a final empty piece dropped, one trailing "\r"
\* of each line dropped
StripCr(l) ==
    IF l # <<>> /\ l[Len(l)] = "\r" THEN SubSeq(l, 1, Len(l) - 1) ELSE l

Lines(s) ==
    LET raw == Split(s, <<"\n">>)
        kept == IF raw[Len(raw)] = <<>> THEN SubSeq(raw, 1, Len(raw) - 1)
                ELSE raw
    IN [i \in 1..Len(kept) |-> StripCr(kept[i])]

\* Iterator::take_while(|c| c.is_ascii_digit()).collect::<String>()
RECURSIVE TakeDigits(_)
TakeDigits(s) ==
    IF s # <<>> /\ Head(s) \in AsciiDigit
    THEN <<Head(s)>> \o TakeDigits(Tail(s))
    ELSE <<>>

DigitValue(c) ==
    CASE c = "0" -> 0 [] c = "1" -> 1 [] c = "2" -> 2 [] c = "3" -> 3
      [] c = "4" -> 4 [] c = "5" -> 5 [] c = "6" -> 6 [] c = "7" -> 7
      [] c = "8" -> 8 [] c = "9" -> 9

\* A u32 is represented by its canonical decimal numeral (no leading zero
\* except for zero itself); numerals are compared by length, then digit by
\* digit, so that values beyond the checker's machine integers stay exact.
RECURSIVE StripLeadingZeros(_)
StripLeadingZeros(ds) ==
    IF Len(ds) > 1 /\ Head(ds) = "0" THEN StripLeadingZeros(Tail(ds)) ELSE ds

RECURSIVE LexLeq(_, _)
LexLeq(a, b) ==
    IF a = <<>> THEN TRUE
    ELSE IF DigitValue(Head(a)) < DigitValue(Head(b)) THEN TRUE
    ELSE IF DigitValue(Head(a)) > DigitValue(Head(b)) THEN FALSE
    ELSE LexLeq(Tail(a), Tail(b))

\* a <= b for canonical numerals
NumeralLeq(a, b) ==
    \/ Len(a) < Len(b)
    \/ Len(a) = Len(b) /\ LexLeq(a, b)

\* u32::MAX = 4294967295
U32MaxNumeral == <<"4", "2", "9", "4", "9", "6", "7", "2", "9", "5">>

\* str::parse::<u32>().ok() of a string of ASCII digits
ParseU32(ds) ==
    IF ds = <<>> THEN None
    ELSE IF ~NumeralLeq(StripLeadingZeros(ds), U32MaxNumeral) THEN None
    ELSE Some(StripLeadingZeros(ds))

DigitChar(d) ==
    CASE d = 0 -> "0" [] d = 1 -> "1" [] d = 2 -> "2" [] d = 3 -> "3"
      [] d = 4 -> "4" [] d = 5 -> "5" [] d = 6 -> "6" [] d = 7 -> "7"
      [] d = 8 -> "8" [] d = 9 -> "9"

\* Display of an integer, as format!("{}") prints it
RECURSIVE FormatNat(_)
FormatNat(n) ==
    IF n < 10 THEN <<DigitChar(n)>>
    ELSE FormatNat(n \div 10) \o <<DigitChar(n % 10)>>

FormatInt(n) == IF n < 0 THEN <<"-">> \o FormatNat(-n) ELSE FormatNat(n)

\* all sequences over S of length at most n
SeqsUpTo(S, n) == UNION {[1..m -> S] : m \in 0..n}

----------------------------------------------------------------------------
\* String literals of commands/o2.rs.

S_port_status ==
    <<"p", "o", "r", "t", "_", "s", "t", "a", "t", "u", "s">>

V_dev ==
    <<"d", "e", "v">>

V_dev_strict ==
    <<"d", "e", "v", "_", "s", "t", "r", "i", "c", "t">>

V_snapshot ==
    <<"s", "n", "a", "p", "s", "h", "o", "t">>

V_commit ==
    <<"c", "o", "m", "m", "i", "t">>

V_map ==
    <<"m", "a", "p">>

V_proofpack ==
    <<"p", "r", "o", "o", "f", "p", "a", "c", "k">>

V_truth_map ==
    <<"t", "r", "u", "t", "h", "_", "m", "a", "p">>

F_o2_dev ==
    <<"o", "2", "_", "d", "e", "v", ".", "s", "h">>

F_o2_dev_strict ==
    <<"o", "2", "_", "d", "e", "v", "_", "s", "t", "r", "i", "c", "t", ".",
      "s", "h">>

F_o2_snapshot ==
    <<"o", "2", "_", "s", "n", "a", "p", "s", "h", "o", "t", ".", "s", "h">>

F_o2_commit ==
    <<"o", "2", "_", "c", "o", "m", "m", "i", "t", ".", "s", "h">>

F_o2_map ==
    <<"o", "2", "_", "m", "a", "p", ".", "s", "h">>

F_o2_proofpack ==
    <<"o", "2", "_", "p", "r", "o", "o", "f", "p", "a", "c", "k", ".", "s",
      "h">>

F_o2_truth_map ==
    <<"o", "2", "_", "t", "r", "u", "t", "h", "_", "m", "a", "p", ".", "s",
      "h">>

F_o2_port_status_verb ==
    <<"o", "2", "_", "p", "o", "r", "t", "_", "s", "t", "a", "t", "u", "s",
      "_", "v", "e", "r", "b", ".", "s", "h">>

M_UnknownVerbPre ==
    <<"U", "n", "k", "n", "o", "w", "n", " ", "v", "e", "r", "b", " ", "'">>

M_UnknownVerbPost ==
    <<"'", " ", "(", "n", "o", "t", " ", "w", "i", "r", "e", "d", " ", "i",
      "n", " ", "O", "2", " ", "v", "e", "r", "b", " ", "m", "a", "p", ")">>

M_InvalidKeyPre ==
    <<"I", "n", "v", "a", "l", "i", "d", " ", "k", "e", "y", " ", "'">>

M_InvalidKeyPost ==
    <<"'", ".", " ", "E", "x", "p", "e", "c", "t", "e", "d", " ", "'", "<",
      "p", "r", "o", "j", "e", "c", "t", ">", ".", "<", "v", "e", "r", "b",
      ">", "'", " ", "O", "R", " ", "'", "p", "o", "r", "t", "_", "s", "t",
      "a", "t", "u", "s", ".", "<", "p", "o", "r", "t", ">", "'", " ", "(",
      "o", "n", "e", " ", "d", "o", "t", ")", ".">>

M_InvalidPortPre ==
    <<"I", "n", "v", "a", "l", "i", "d", " ", "p", "o", "r", "t", " ", "t",
      "o", "k", "e", "n", ":", " ", "'">>

M_UnsafeProjectPre ==
    <<"U", "n", "s", "a", "f", "e", " ", "p", "r", "o", "j", "e", "c", "t",
      " ", "t", "o", "k", "e", "n", ":", " ", "'">>

M_UnsafeVerbPre ==
    <<"U", "n", "s", "a", "f", "e", " ", "v", "e", "r", "b", " ", "t", "o",
      "k", "e", "n", ":", " ", "'">>

M_Quote ==
    <<"'">>

T_Preamble ==
    <<"\n", "s", "e", "t", " ", "-", "e", "u", "o", " ", "p", "i", "p", "e",
      "f", "a", "i", "l", "\n", "O", "2", "_", "R", "O", "O", "T", "=", "\"",
      "$", "{", "O", "2", "_", "R", "O", "O", "T", ":", "-", "$", "H", "O",
      "M", "E", "/", "d", "e", "v", "/", "o", "2", "}", "\"", "\n", "c", "d",
      " ", "\"", "$", "{", "O", "2", "_", "R", "O", "O", "T", "}", "\"",
      "\n">>

T_BashScripts ==
    <<"b", "a", "s", "h", " ", "\"", "s", "c", "r", "i", "p", "t", "s", "/">>

T_ArgOpen ==
    <<"\"", " ", "\"">>

T_ArgClose ==
    <<"\"", "\n">>
----------------------------------------------------------------------------
\* shell.rs: the capturing shell runner.

M_SpawnFailedPre ==
    <<"F", "a", "i", "l", "e", "d", " ", "t", "o", " ", "s", "p", "a", "w",
      "n", " ", "s", "h", "e", "l", "l", ":", " ">>

M_CommandFailedPre ==
    <<"C", "o", "m", "m", "a", "n", "d", " ", "f", "a", "i", "l", "e", "d",
      " ", "(", "e", "x", "i", "t", " ">>

M_CommandFailedPost ==
    <<")", ":", "\n">>

E_NoSuchFile ==
    <<"N", "o", " ", "s", "u", "c", "h", " ", "f", "i", "l", "e", " ", "o",
      "r", " ", "d", "i", "r", "e", "c", "t", "o", "r", "y", " ", "(", "o",
      "s", " ", "e", "r", "r", "o", "r", " ", "2", ")">>
\* A byte no UTF-8 decoding accepts, and the U+FFFD it is replaced by.
InvalidByte == "<0xFF>"

ReplacementChar == "<U+FFFD>"

\* String::from_utf8_lossy(..).to_string()
from_utf8_lossy(bytes) ==
    [i \in 1..Len(bytes) |->
        IF bytes[i] = InvalidByte THEN ReplacementChar ELSE bytes[i]]

\* What Command::output() yields: a spawn error, or the child's two streams
\* and its exit status (code None when a signal ended it).
SpawnError(e) ==
    [spawn_err |-> Some(e), stdout |-> <<>>, stderr |-> <<>>, code |-> None]

Exited(so, se, c) ==
    [spawn_err |-> None, stdout |-> so, stderr |-> se, code |-> c]

\* variant of combined: the two streams joined stderr first
combined_stderr_first(stdout, stderr) ==
    IF Trim(stderr) = <<>> THEN stdout
    ELSE IF Trim(stdout) = <<>> THEN stderr
    ELSE stderr \o <<"\n">> \o stdout

\* the text shell.rs composes from the two decoded streams
combined(stdout, stderr) ==
    IF Trim(stderr) = <<>> THEN stdout
    ELSE IF Trim(stdout) = <<>> THEN stderr
    ELSE stdout \o <<"\n">> \o stderr

\* out.status.code().unwrap_or(-1)
ExitCodeOrSentinel(code) == IF code = None THEN -1 ELSE code[1]

\* shell.rs run_shell_output(cmd), given what the child of `bash -lc cmd` did
run_shell_output(cmd, out) ==
    IF out.spawn_err # None
    THEN Err(M_SpawnFailedPre \o out.spawn_err[1])
    ELSE LET text == combined(from_utf8_lossy(out.stdout),
                              from_utf8_lossy(out.stderr))
         IN IF out.code = Some(0)
            THEN Ok(text)
            ELSE Err(M_CommandFailedPre
                     \o FormatInt(ExitCodeOrSentinel(out.code))
                     \o M_CommandFailedPost \o text)

\* lib.rs run_shell(cmd): the older copy of the same runner
run_shell(cmd, out) ==
    IF out.spawn_err # None
    THEN Err(M_SpawnFailedPre \o out.spawn_err[1])
    ELSE LET stdout == from_utf8_lossy(out.stdout)
             stderr == from_utf8_lossy(out.stderr)
             text == IF Trim(stderr) = <<>> THEN stdout
                     ELSE IF Trim(stdout) = <<>> THEN stderr
                     ELSE stdout \o <<"\n">> \o stderr
         IN IF out.code = Some(0)
            THEN Ok(text)
            ELSE Err(M_CommandFailedPre
                     \o FormatInt(IF out.code = None THEN -1 ELSE out.code[1])
                     \o M_CommandFailedPost \o text)

----------------------------------------------------------------------------
\* commands/o2.rs: token validator, verb table, key parser, dispatcher.

SafeChars == AsciiLower \cup AsciiDigit \cup {"_", "-"}

\* variant of is_safe_token: is_ascii_alphanumeric in place of
\* is_ascii_lowercase || is_ascii_digit
is_safe_token_alphanumeric(s) ==
    s # <<>> /\ \A i \in 1..Len(s) :
                    s[i] \in SafeChars \cup {"A", "B", "D", "I", "S", "T", "Z"}

is_safe_token(s) == s # <<>> /\ \A i \in 1..Len(s) : s[i] \in SafeChars

is_port_token(s) == s # <<>> /\ \A i \in 1..Len(s) : s[i] \in AsciiDigit

\* variant of verb_to_script: an unlisted verb falls through to a script
\* named after it
verb_to_script_fallthrough(verb) ==
    CASE verb = V_dev -> Ok(F_o2_dev)
      [] verb = V_dev_strict -> Ok(F_o2_dev_strict)
      [] verb = V_snapshot -> Ok(F_o2_snapshot)
      [] verb = V_commit -> Ok(F_o2_commit)
      [] verb = V_map -> Ok(F_o2_map)
      [] verb = V_proofpack -> Ok(F_o2_proofpack)
      [] verb = V_truth_map -> Ok(F_o2_truth_map)
      [] OTHER -> Ok(<<"o", "2", "_">> \o verb \o <<".", "s", "h">>)

\* variant of verb_to_script: the failure message does not name the verb
verb_to_script_unnamed(verb) ==
    CASE verb = V_dev -> Ok(F_o2_dev)
      [] verb = V_dev_strict -> Ok(F_o2_dev_strict)
      [] verb = V_snapshot -> Ok(F_o2_snapshot)
      [] verb = V_commit -> Ok(F_o2_commit)
      [] verb = V_map -> Ok(F_o2_map)
      [] verb = V_proofpack -> Ok(F_o2_proofpack)
      [] verb = V_truth_map -> Ok(F_o2_truth_map)
      [] OTHER -> Err(M_UnknownVerbPre \o M_UnknownVerbPost)

verb_to_script(verb) ==
    CASE verb = V_dev -> Ok(F_o2_dev)
      [] verb = V_dev_strict -> Ok(F_o2_dev_strict)
      [] verb = V_snapshot -> Ok(F_o2_snapshot)
      [] verb = V_commit -> Ok(F_o2_commit)
      [] verb = V_map -> Ok(F_o2_map)
      [] verb = V_proofpack -> Ok(F_o2_proofpack)
      [] verb = V_truth_map -> Ok(F_o2_truth_map)
      [] OTHER -> Err(M_UnknownVerbPre \o verb \o M_UnknownVerbPost)

\* enum O2Key
ProjectVerb(p, v) == [tag |-> "ProjectVerb", project |-> p, verb |-> v]

PortStatusKey(p) == [tag |-> "PortStatus", port |-> p]

\* variant of parse_o2_key: the two parts are validated as split, untrimmed
parse_o2_key_untrimmed(k) ==
    LET parts == Split(k, <<".">>) IN
    IF Len(parts) # 2
    THEN Err(M_InvalidKeyPre \o k \o M_InvalidKeyPost)
    ELSE LET left == parts[1]
             right == parts[2]
         IN IF left = S_port_status
            THEN IF ~is_port_token(right)
                 THEN Err(M_InvalidPortPre \o right \o M_Quote)
                 ELSE PortStatusKey(right)
            ELSE IF ~is_safe_token(left)
                 THEN Err(M_UnsafeProjectPre \o left \o M_Quote)
                 ELSE IF ~is_safe_token(right)
                      THEN Err(M_UnsafeVerbPre \o right \o M_Quote)
                      ELSE ProjectVerb(left, right)

parse_o2_key(k) ==
    LET parts == Split(k, <<".">>) IN
    IF Len(parts) # 2
    THEN Err(M_InvalidKeyPre \o k \o M_InvalidKeyPost)
    ELSE LET left == Trim(parts[1])
             right == Trim(parts[2])
         IN IF left = S_port_status
            THEN IF ~is_port_token(right)
                 THEN Err(M_InvalidPortPre \o right \o M_Quote)
                 ELSE PortStatusKey(right)
            ELSE IF ~is_safe_token(left)
                 THEN Err(M_UnsafeProjectPre \o left \o M_Quote)
                 ELSE IF ~is_safe_token(right)
                      THEN Err(M_UnsafeVerbPre \o right \o M_Quote)
                      ELSE ProjectVerb(left, right)

\* variant of ProjectVerbCmd: the two named format arguments exchanged
ProjectVerbCmd_swapped(script_name, project) ==
    T_Preamble \o T_BashScripts \o project \o T_ArgOpen \o script_name
    \o T_ArgClose

\* the two format! templates of run_o2_proxy
ProjectVerbCmd(script_name, project) ==
    T_Preamble \o T_BashScripts \o script_name \o T_ArgOpen \o project
    \o T_ArgClose

PortStatusCmd(port) ==
    T_Preamble \o T_BashScripts \o F_o2_port_status_verb \o T_ArgOpen \o port
    \o T_ArgClose

----------------------------------------------------------------------------
\* commands/ports.rs: the port inspector.

P_SsPre ==
    <<"s", "s", " ", "-", "l", "t", "n", "p", " ", "'", "s", "p", "o", "r",
      "t", " ", "=", " ", ":">>

P_SsPost ==
    <<"'", " ", "2", ">", "/", "d", "e", "v", "/", "n", "u", "l", "l", " ",
      "|", "|", " ", "t", "r", "u", "e">>

P_ErrorPrefix ==
    <<"E", "R", "R", "O", "R", ":", " ">>

P_NotFound ==
    <<"n", "o", "t", " ", "f", "o", "u", "n", "d">>

P_ErrorTag ==
    <<"E", "R", "R", "O", "R", ":">>

P_Listen ==
    <<"L", "I", "S", "T", "E", "N">>

P_PidEq ==
    <<"p", "i", "d", "=">>
\* struct PortStatus of commands/ports.rs
PortStatusRecord(port, listening, pid, cmd, err) ==
    [port |-> port, listening |-> listening, pid |-> pid, cmd |-> cmd,
     err |-> err]

parse_pid_and_cmd_from_ss(s) ==
    LET rest == Nth(Split(s, P_PidEq), 1)
        pid == IF rest = None THEN None ELSE ParseU32(TakeDigits(rest[1]))
        name == Nth(Split(s, <<"\"">>), 1)
        cmd == IF name = None THEN None
               ELSE IF Trim(name[1]) = <<>> THEN None
               ELSE Some(Trim(name[1]))
    IN <<pid, cmd>>

\* the command line port_status formats
PortsCmdline(port) == P_SsPre \o FormatInt(port) \o P_SsPost

\* run_shell_output(&cmdline).unwrap_or_else(|e| format!("ERROR: {e}"))
PortsProbeText(r) == IF r.tag = "Ok" THEN r.text ELSE P_ErrorPrefix \o r.text

\* variant of port_status: a runner failure is dropped (unwrap_or_default)
\* instead of being turned into an "ERROR: " text
port_status_unflagged(port, out) ==
    LET r == run_shell_output(PortsCmdline(port), out)
        text == IF r.tag = "Ok" THEN r.text ELSE <<>>
    IN
    IF Trim(text) = <<>>
    THEN Ok(PortStatusRecord(port, FALSE, None, None, None))
    ELSE IF Contains(text, P_NotFound) \/ Contains(text, P_ErrorTag)
    THEN Ok(PortStatusRecord(port, FALSE, None, None, Some(Trim(text))))
    ELSE LET ls == Lines(text)
             listening == \E i \in 1..Len(ls) : Contains(ls[i], P_Listen)
             pid_cmd == parse_pid_and_cmd_from_ss(text)
         IN Ok(PortStatusRecord(port, listening, pid_cmd[1], pid_cmd[2],
                                None))

\* commands/ports.rs port_status(port), given what the probe's child did
port_status(port, out) ==
    LET text == PortsProbeText(run_shell_output(PortsCmdline(port), out)) IN
    IF Trim(text) = <<>>
    THEN Ok(PortStatusRecord(port, FALSE, None, None, None))
    ELSE IF Contains(text, P_NotFound) \/ Contains(text, P_ErrorTag)
    THEN Ok(PortStatusRecord(port, FALSE, None, None, Some(Trim(text))))
    ELSE LET ls == Lines(text)
             listening == \E i \in 1..Len(ls) : Contains(ls[i], P_Listen)
             pid_cmd == parse_pid_and_cmd_from_ss(text)
         IN Ok(PortStatusRecord(port, listening, pid_cmd[1], pid_cmd[2],
                                None))

----------------------------------------------------------------------------
\* lib.rs: the older port inspector and kill_port.

L_SsPre ==
    <<"s", "s", " ", "-", "l", "t", "n", "p", "H", " ", "'", "s", "p", "o",
      "r", "t", " ", "=", " ", ":">>

L_NoLines ==
    <<"(", "n", "o", " ", "s", "s", " ", "l", "i", "s", "t", "e", "n", "e",
      "r", " ", "l", "i", "n", "e", "s", ")">>

L_Paren2 ==
    <<"(", "(">>
L_FuserPre ==
    <<"(", "f", "u", "s", "e", "r", " ", "-", "k", " ">>

L_FuserPost ==
    <<"/", "t", "c", "p", " ", ">", "/", "d", "e", "v", "/", "n", "u", "l",
      "l", " ", "2", ">", "&", "1", " ", "|", "|", " ", "t", "r", "u", "e",
      ")", ";", " ", "e", "c", "h", "o", " ", "\"", "d", "o", "n", "e", "\"">>
\* struct PortStatus of lib.rs
LibPortStatusRecord(port, listening, pid, command, raw) ==
    [port |-> port, listening |-> listening, pid |-> pid,
     command |-> command, raw |-> raw]

parse_pid_from_ss(s) ==
    LET idx == Find(s, P_PidEq) IN
    IF idx = None THEN None
    ELSE ParseU32(TakeDigits(SubSeq(s, idx[1] + 4 + 1, Len(s))))

parse_prog_from_ss(s) ==
    LET start == Find(s, L_Paren2) IN
    IF start = None THEN None
    ELSE LET rest == SubSeq(s, start[1] + 2 + 1, Len(s))
             q1 == Find(rest, <<"\"">>)
         IN IF q1 = None THEN None
            ELSE LET rest2 == SubSeq(rest, q1[1] + 1 + 1, Len(rest))
                     q2 == Find(rest2, <<"\"">>)
                 IN IF q2 = None THEN None
                    ELSE LET name == SubSeq(rest2, 1, q2[1]) IN
                         IF Trim(name) = <<>> THEN None ELSE Some(name)

LibCmdline(port) == L_SsPre \o FormatInt(port) \o P_SsPost

\* run_shell(..).unwrap_or_default()
LibProbeText(r) == IF r.tag = "Ok" THEN r.text ELSE <<>>

\* lib.rs port_status(port), given what the probe's child did
lib_port_status(port, out) ==
    LET raw == LibProbeText(run_shell(LibCmdline(port), out))
        ls == Lines(raw)
        listening == \E i \in 1..Len(ls) : Trim(ls[i]) # <<>>
    IN Ok(LibPortStatusRecord(
              port,
              listening,
              IF listening THEN parse_pid_from_ss(raw) ELSE None,
              IF listening THEN parse_prog_from_ss(raw) ELSE None,
              IF Trim(raw) = <<>> THEN L_NoLines ELSE raw))

\* the command line kill_port formats
KillCmdline(port) == L_FuserPre \o FormatInt(port) \o L_FuserPost

----------------------------------------------------------------------------
\* Inputs of the port inspector and of the runner called on its own.

----------------------------------------------------------------------------
\* Inputs of run_o2: the key text the front-end sends, and what the child
\* started by the dispatcher does.

K_tbis ==
    <<"t", "b", "i", "s">>

K_TBIS ==
    <<"T", "B", "I", "S">>

K_my_app_2 ==
    <<"m", "y", "-", "a", "p", "p", "_", "2">>

K_a_b ==
    <<"a", " ", "b">>

K_inject ==
    <<"x", "\"", ";", "i", "d", ";", "\"">>

K_deploy ==
    <<"d", "e", "p", "l", "o", "y">>

K_not ==
    <<"n", "o", "t">>

K_e ==
    <<"e">>

K_Dev ==
    <<"D", "e", "v">>

K_3000 ==
    <<"3", "0", "0", "0">>

K_0 ==
    <<"0">>

K_65535 ==
    <<"6", "5", "5", "3", "5">>

K_65536 ==
    <<"6", "5", "5", "3", "6">>

K_80a ==
    <<"8", "0", "a">>

K_subst ==
    <<"$", "(", "i", "d", ")">>

O_ok ==
    <<"o", "k", "\n">>

O_e ==
    <<"e">>
LeftTokens ==
    {K_tbis, K_TBIS, K_my_app_2, K_a_b, K_inject, S_port_status, <<>>}

Verbs ==
    {V_dev, V_dev_strict, V_snapshot, V_commit, V_map, V_proofpack,
     V_truth_map}

RightTokens ==
    Verbs \cup {K_deploy, K_not, K_e, K_Dev, K_3000, K_0, K_65535, K_65536,
                K_80a, K_subst, <<>>}

\* whitespace around the whole key, and around the separator
OuterPads == SeqsUpTo({" "}, MaxPad)

InnerPads == {<<>>, <<"\t">>}

Dots(n) == [i \in 1..n |-> "."]

StructuredKeys ==
    {lp \o l \o ip \o Dots(n) \o ip \o r \o tp :
        lp \in OuterPads, tp \in OuterPads, ip \in InnerPads,
        n \in 0..MaxDots, l \in LeftTokens, r \in RightTokens}

RawAlphabet == {"a", "Z", "7", ".", " ", "\""}

RawKeys == SeqsUpTo(RawAlphabet, MaxRaw)

Keys == StructuredKeys \cup RawKeys

O2Outcomes ==
    {SpawnError(E_NoSuchFile),
     Exited(O_ok, <<>>, Some(0)),
     Exited(<<>>, O_e, Some(1)),
     Exited(O_ok, O_e, None)}

G_ListenLine ==
    <<"L", "I", "S", "T", "E", "N", " ", "0", " ", "5", "1", "1", " ", "*",
      ":", "3", "0", "0", "0", " ", "*", ":", "*", " ", "u", "s", "e", "r",
      "s", ":", "(", "(", "\"", "n", "o", "d", "e", "\"", ",", "p", "i", "d",
      "=", "1", "2", "3", "4", "5", ",", "f", "d", "=", "2", "0", ")", ")">>

G_Header ==
    <<"S", "t", "a", "t", "e", " ", "R", "e", "c", "v", "-", "Q", " ", "S",
      "e", "n", "d", "-", "Q", " ", "L", "o", "c", "a", "l", " ", "A", "d",
      "d", "r", "e", "s", "s", ":", "P", "o", "r", "t", " ", "P", "e", "e",
      "r", " ", "A", "d", "d", "r", "e", "s", "s", ":", "P", "o", "r", "t",
      " ", "P", "r", "o", "c", "e", "s", "s">>

G_12 ==
    <<"1", "2">>

G_TooBig ==
    <<"4", "2", "9", "4", "9", "6", "7", "2", "9", "6">>
\* u16 ports asked about
Ports == {3000, 65535}

\* pieces of socket-listing output; a probe text is up to MaxFrags of them
Fragments ==
    {G_ListenLine, G_Header, G_12, G_TooBig, P_PidEq, P_Listen, P_NotFound,
     P_ErrorTag, L_Paren2, <<"\"">>, <<"\n">>}

RECURSIVE Flatten(_)
Flatten(ss) == IF ss = <<>> THEN <<>> ELSE Head(ss) \o Flatten(Tail(ss))

ProbeTexts == {Flatten(fs) : fs \in SeqsUpTo(Fragments, MaxFrags)}

ProbeOutcomes ==
    {SpawnError(E_NoSuchFile)}
    \cup {Exited(t, <<>>, Some(0)) : t \in ProbeTexts}
    \cup {Exited(t, O_e, Some(0)) : t \in ProbeTexts}
    \cup {Exited(t, <<>>, Some(1)) : t \in ProbeTexts}

OutAlphabet == {"a", " ", "\n", InvalidByte}

OutTexts == SeqsUpTo(OutAlphabet, MaxOut)

ExitCodes == {Some(0), Some(1), Some(127), None}

ShellOutcomes ==
    {SpawnError(E_NoSuchFile)}
    \cup {Exited(so, se, c) :
            so \in OutTexts, se \in OutTexts, c \in ExitCodes}

----------------------------------------------------------------------------
\* State machine.

Init ==
    /\ pc = "idle"
    /\ op = "none"
    /\ key = <<>>
    /\ parsed = None
    /\ script = None
    /\ spawned = <<>>
    /\ child = None
    /\ result = None
    /\ record = None

\* the host bridge has delivered the value; the next request starts clean
Return ==
    /\ pc = "done"
    /\ pc' = "idle"
    /\ op' = "none"
    /\ key' = <<>>
    /\ parsed' = None
    /\ script' = None
    /\ spawned' = <<>>
    /\ child' = None
    /\ result' = None
    /\ record' = None

\* run_o2(key) -> run_o2_proxy(key)
Invoke_run_o2 ==
    /\ pc = "idle"
    /\ \E k \in Keys : key' = k
    /\ op' = "run_o2"
    /\ pc' = "parse"
    /\ UNCHANGED <<parsed, script, spawned, child, result, record>>

\* run_o2_proxy: `parse_o2_key(key)?`
ParseKey ==
    /\ pc = "parse"
    /\ LET r == parse_o2_key(key) IN
       /\ parsed' = Some(r)
       /\ IF r.tag = "Err"
          THEN result' = Some(r) /\ pc' = "done"
          ELSE /\ result' = result
               /\ pc' = IF r.tag = "ProjectVerb" THEN "lookup" ELSE "dispatch"
    /\ UNCHANGED <<op, key, script, spawned, child, record>>

\* variant of VerbLookup: the lookup's failure is not propagated
VerbLookup_unchecked ==
    /\ pc = "lookup"
    /\ script' = Some(verb_to_script(parsed[1].verb))
    /\ pc' = "dispatch"
    /\ UNCHANGED <<op, key, parsed, spawned, child, result, record>>

\* run_o2_proxy, ProjectVerb arm: `verb_to_script(&verb)?`
VerbLookup ==
    /\ pc = "lookup"
    /\ LET s == verb_to_script(parsed[1].verb) IN
       /\ script' = Some(s)
       /\ IF s.tag = "Err"
          THEN result' = Some(s) /\ pc' = "done"
          ELSE result' = result /\ pc' = "dispatch"
    /\ UNCHANGED <<op, key, parsed, spawned, child, record>>

\* run_o2_proxy: format! the command and hand it to run_shell_output, which
\* blocks until the child has exited
Dispatch ==
    /\ pc = "dispatch"
    /\ LET k == parsed[1]
           cmd == IF k.tag = "ProjectVerb"
                  THEN ProjectVerbCmd(script[1].text, k.project)
                  ELSE PortStatusCmd(k.port)
       IN \E out \in O2Outcomes :
            /\ spawned' = Append(spawned, cmd)
            /\ child' = Some(out)
            /\ result' = Some(run_shell_output(cmd, out))
    /\ pc' = "done"
    /\ UNCHANGED <<op, key, parsed, script, record>>

NextO2 == Invoke_run_o2 \/ ParseKey \/ VerbLookup \/ Dispatch \/ Return

SpecO2 == Init /\ [][NextO2]_vars

----------------------------------------------------------------------------
\* The port inspector and the runner as commands.

\* commands/ports.rs port_status(port)
Invoke_port_status ==
    /\ pc = "idle"
    /\ \E port \in Ports, out \in ProbeOutcomes :
         /\ spawned' = <<PortsCmdline(port)>>
         /\ child' = Some(out)
         /\ result' = Some(run_shell_output(PortsCmdline(port), out))
         /\ record' = Some(port_status(port, out))
    /\ op' = "port_status"
    /\ pc' = "done"
    /\ UNCHANGED <<key, parsed, script>>

\* lib.rs port_status(port)
Invoke_lib_port_status ==
    /\ pc = "idle"
    /\ \E port \in Ports, out \in ProbeOutcomes :
         /\ spawned' = <<LibCmdline(port)>>
         /\ child' = Some(out)
         /\ result' = Some(run_shell(LibCmdline(port), out))
         /\ record' = Some(lib_port_status(port, out))
    /\ op' = "lib_port_status"
    /\ pc' = "done"
    /\ UNCHANGED <<key, parsed, script>>

NextPorts == Invoke_port_status \/ Invoke_lib_port_status \/ Return

SpecPorts == Init /\ [][NextPorts]_vars

\* shell.rs run_shell_output(cmd), called with the probe's command line
Invoke_run_shell_output ==
    /\ pc = "idle"
    /\ \E port \in Ports, out \in ShellOutcomes :
         /\ spawned' = <<PortsCmdline(port)>>
         /\ child' = Some(out)
         /\ result' = Some(run_shell_output(PortsCmdline(port), out))
    /\ op' = "run_shell_output"
    /\ pc' = "done"
    /\ UNCHANGED <<key, parsed, script, record>>

\* lib.rs kill_port(port) -> run_shell(..)
Invoke_kill_port ==
    /\ pc = "idle"
    /\ \E port \in Ports, out \in ShellOutcomes :
         /\ spawned' = <<KillCmdline(port)>>
         /\ child' = Some(out)
         /\ result' = Some(run_shell(KillCmdline(port), out))
    /\ op' = "kill_port"
    /\ pc' = "done"
    /\ UNCHANGED <<key, parsed, script, record>>

NextShell == Invoke_run_shell_output \/ Invoke_kill_port \/ Return

SpecShell == Init /\ [][NextShell]_vars

Next == NextO2 \/ NextPorts \/ NextShell

Spec == Init /\ [][Next]_vars

----------------------------------------------------------------------------
\* Vocabulary of the properties: what a reader of the key, of the command
\* text and of the messages expects, written independently of the operators
\* above.

X_SetStrict ==
    <<"s", "e", "t", " ", "-", "e", "u", "o", " ", "p", "i", "p", "e", "f",
      "a", "i", "l">>

X_ResolveRoot ==
    <<"O", "2", "_", "R", "O", "O", "T", "=", "\"", "$", "{", "O", "2", "_",
      "R", "O", "O", "T", ":", "-", "$", "H", "O", "M", "E", "/", "d", "e",
      "v", "/", "o", "2", "}", "\"">>

X_ChangeDir ==
    <<"c", "d", " ", "\"", "$", "{", "O", "2", "_", "R", "O", "O", "T", "}",
      "\"">>

X_Bash ==
    <<"b", "a", "s", "h">>

X_ScriptsDir ==
    <<"s", "c", "r", "i", "p", "t", "s", "/">>

X_NotWiredPre ==
    <<"U", "n", "k", "n", "o", "w", "n", " ", "v", "e", "r", "b", " ", "'">>

X_NotWiredPost ==
    <<"'", " ", "(", "n", "o", "t", " ", "w", "i", "r", "e", "d", " ", "i",
      "n", " ", "O", "2", " ", "v", "e", "r", "b", " ", "m", "a", "p", ")">>

X_InvalidKey ==
    <<"I", "n", "v", "a", "l", "i", "d", " ", "k", "e", "y", " ", "'">>

X_InvalidPort ==
    <<"I", "n", "v", "a", "l", "i", "d", " ", "p", "o", "r", "t", " ", "t",
      "o", "k", "e", "n", ":", " ", "'">>

X_UnsafeProject ==
    <<"U", "n", "s", "a", "f", "e", " ", "p", "r", "o", "j", "e", "c", "t",
      " ", "t", "o", "k", "e", "n", ":", " ", "'">>

X_UnsafeVerb ==
    <<"U", "n", "s", "a", "f", "e", " ", "v", "e", "r", "b", " ", "t", "o",
      "k", "e", "n", ":", " ", "'">>

X_MaxPort ==
    <<"6", "5", "5", "3", "5">>

X_CommandFailed ==
    <<"C", "o", "m", "m", "a", "n", "d", " ", "f", "a", "i", "l", "e", "d",
      " ", "(", "e", "x", "i", "t", " ">>
X_NotFound ==
    <<"n", "o", "t", " ", "f", "o", "u", "n", "d">>

X_ErrorTag ==
    <<"E", "R", "R", "O", "R", ":">>

X_ExitClose ==
    <<")", ":", "\n">>

TokenChars ==
    {"a", "b", "c", "d", "e", "f", "g", "h", "i", "j", "k", "l", "m",
     "n", "o", "p", "q", "r", "s", "t", "u", "v", "w", "x", "y", "z",
     "0", "1", "2", "3", "4", "5", "6", "7", "8", "9", "_", "-"}

DigitChars == {"0", "1", "2", "3", "4", "5", "6", "7", "8", "9"}

InClass(s, S) == s # <<>> /\ \A i \in 1..Len(s) : s[i] \in S

DotCount(k) == Cardinality({i \in 1..Len(k) : k[i] = "."})

DotAt(k) == CHOOSE i \in 1..Len(k) : k[i] = "."

\* the two sides of a key that has exactly one dot, as typed
RawLeft(k) == SubSeq(k, 1, DotAt(k) - 1)

RawRight(k) == SubSeq(k, DotAt(k) + 1, Len(k))

\* the same key with the whitespace around each side removed
Unpadded(k) == Trim(RawLeft(k)) \o <<".">> \o Trim(RawRight(k))

Quoted(t) == <<"'">> \o t \o <<"'">>

DoubleQuoted(t) == <<"\"">> \o t \o <<"\"">>

HasPrefix(s, pre) == MatchAt(s, pre, 1)

\* number of (possibly overlapping) occurrences of pat in s
Occurrences(s, pat) ==
    Cardinality({i \in 1..(Len(s) + 1) : MatchAt(s, pat, i)})

ScriptOf ==
    [v \in Verbs |->
        CASE v = V_dev -> F_o2_dev
          [] v = V_dev_strict -> F_o2_dev_strict
          [] v = V_snapshot -> F_o2_snapshot
          [] v = V_commit -> F_o2_commit
          [] v = V_map -> F_o2_map
          [] v = V_proofpack -> F_o2_proofpack
          [] v = V_truth_map -> F_o2_truth_map]

ScriptFiles == {ScriptOf[v] : v \in Verbs} \cup {F_o2_port_status_verb}

O2Done == op = "run_o2" /\ pc = "done"

ReachedRunner == spawned # <<>>

Accepted == parsed # None /\ parsed[1].tag # "Err"

IsProjectVerb == parsed # None /\ parsed[1].tag = "ProjectVerb"

IsPortStatus == parsed # None /\ parsed[1].tag = "PortStatus"

ParseRejected == parsed # None /\ parsed[1].tag = "Err"

VerbRejected == script # None /\ script[1].tag = "Err"

BadKeyShape(r) == r.tag = "Err" /\ HasPrefix(r.text, X_InvalidKey)

UnsafeToken(r) ==
    /\ r.tag = "Err"
    /\ \/ HasPrefix(r.text, X_UnsafeProject)
       \/ HasPrefix(r.text, X_UnsafeVerb)
       \/ HasPrefix(r.text, X_InvalidPort)

\* the key or token a rejection is about
Offending ==
    IF VerbRejected THEN Trim(RawRight(key))
    ELSE IF BadKeyShape(parsed[1]) THEN key
    ELSE IF HasPrefix(parsed[1].text, X_UnsafeProject) THEN Trim(RawLeft(key))
    ELSE Trim(RawRight(key))

----------------------------------------------------------------------------
\* C1 (as stated): for every key "<any>.<v>" with exactly one dot, whatever
\* the left token, run_o2 reaches the shell runner iff v is one of the seven
\* verbs, and any other verb fails with the 'not wired' message naming it.
C1_VerbClosureAnyLeft ==
    (/\ O2Done
     /\ DotCount(key) = 1
     /\ Trim(RawLeft(key)) # <<>>
     /\ Trim(RawRight(key)) # <<>>) =>
        LET v == Trim(RawRight(key)) IN
        /\ ReachedRunner <=> v \in Verbs
        /\ v \notin Verbs =>
               result = Some(Err(X_NotWiredPre \o v \o X_NotWiredPost))

\* C1 (amended): for every key with exactly one dot whose trimmed left token
\* is a safe project token other than port_status, run_o2 reaches the shell
\* runner iff the trimmed right token v is one of the seven verbs; a v
\* outside the seven fails, with the 'not wired' message naming v when v is
\* a safe token and with the unsafe-verb-token message otherwise.
C1_VerbClosure ==
    (/\ O2Done
     /\ DotCount(key) = 1
     /\ InClass(Trim(RawLeft(key)), TokenChars)
     /\ Trim(RawLeft(key)) # S_port_status) =>
        LET v == Trim(RawRight(key)) IN
        /\ ReachedRunner <=> v \in Verbs
        /\ (v \notin Verbs /\ InClass(v, TokenChars)) =>
               result = Some(Err(X_NotWiredPre \o v \o X_NotWiredPost))
        /\ (v \notin Verbs /\ ~InClass(v, TokenChars)) =>
               result = Some(Err(X_UnsafeVerb \o v \o <<"'">>))

\* a safe project with a well-formed verb outside the table was turned down
\* by the verb table, and one with a wired verb reached the runner
C1_Witness ==
    /\ O2Done
    /\ DotCount(key) = 1
    /\ Trim(RawLeft(key)) = K_tbis
    /\ \/ Trim(RawRight(key)) = K_deploy /\ VerbRejected /\ ~ReachedRunner
       \/ Trim(RawRight(key)) = V_truth_map /\ ReachedRunner

\* C2: every project or verb token the parser accepts is non-empty and over
\* [a-z0-9_-], every port token it accepts is non-empty and over [0-9], and
\* the command text handed to the runner takes nothing from the key but
\* that token: its double quotes stay the template's eight, and the last
\* quoted word is the accepted token.
C2_SafetyClosure ==
    /\ IsProjectVerb =>
           /\ InClass(parsed[1].project, TokenChars)
           /\ InClass(parsed[1].verb, TokenChars)
    /\ IsPortStatus => InClass(parsed[1].port, DigitChars)
    /\ \A i \in 1..Len(spawned) :
           LET pieces == Split(spawned[i], <<"\"">>) IN
           /\ Len(pieces) = 9
           /\ pieces[8] = Trim(IF IsPortStatus THEN RawRight(key)
                               ELSE RawLeft(key))
           /\ InClass(pieces[8], IF IsPortStatus THEN DigitChars
                                 ELSE TokenChars)
           /\ InClass(pieces[6], TokenChars \cup {"/", "."})
           /\ Len(spawned[i]) =
                  Len(T_Preamble) + Len(T_BashScripts) + Len(pieces[6])
                  - Len(X_ScriptsDir) + Len(T_ArgOpen) + Len(pieces[8])
                  + Len(T_ArgClose)

\* a key typed with whitespace around its tokens was accepted and dispatched
C2_Witness ==
    /\ O2Done
    /\ ReachedRunner
    /\ IsProjectVerb
    /\ key # Unpadded(key)
    /\ parsed[1].project = K_my_app_2

\* C3: the command handed to the runner is the strict-mode preamble, the
\* O2 root resolution, the change of directory, and then exactly
\* bash "scripts/<script(v)>" "<p>" for ProjectVerb {p, v}, or
\* bash "scripts/o2_port_status_verb.sh" "<port>" for PortStatus {port}:
\* one of the eight script files, and one positional argument.
C3_DispatchShape ==
    \A i \in 1..Len(spawned) :
        LET ls == Lines(spawned[i])
            words == Split(ls[Len(ls)], <<" ">>)
        IN /\ ls = <<<<>>, X_SetStrict, X_ResolveRoot, X_ChangeDir,
                     ls[Len(ls)]>>
           /\ Len(words) = 3
           /\ words[1] = X_Bash
           /\ \E f \in ScriptFiles : words[2] = DoubleQuoted(X_ScriptsDir \o f)
           /\ IsProjectVerb =>
                  /\ parsed[1].verb \in Verbs
                  /\ words[2] =
                         DoubleQuoted(X_ScriptsDir \o ScriptOf[parsed[1].verb])
                  /\ words[3] = DoubleQuoted(parsed[1].project)
           /\ IsPortStatus =>
                  /\ words[2] = DoubleQuoted(X_ScriptsDir
                                             \o F_o2_port_status_verb)
                  /\ words[3] = DoubleQuoted(parsed[1].port)

\* tbis.snapshot was dispatched
C3_Witness ==
    /\ O2Done
    /\ ReachedRunner
    /\ IsProjectVerb
    /\ parsed[1].project = K_tbis
    /\ parsed[1].verb = V_snapshot

\* C4: the parser returns exactly one of ProjectVerb, PortStatus, bad key
\* shape, unsafe token; bad key shape exactly when the raw key does not
\* hold exactly one '.'; otherwise each side is trimmed first, so the key
\* parses as the same key without the whitespace around its tokens.
C4_ParserTotality ==
    parsed # None =>
        LET r == parsed[1] IN
        /\ Cardinality({n \in 1..4 :
                            \/ n = 1 /\ r.tag = "ProjectVerb"
                            \/ n = 2 /\ r.tag = "PortStatus"
                            \/ n = 3 /\ BadKeyShape(r)
                            \/ n = 4 /\ UnsafeToken(r)}) = 1
        /\ BadKeyShape(r) <=> DotCount(key) # 1
        /\ DotCount(key) = 1 => r = parse_o2_key(Unpadded(key))

\* "tbis.commit " (trailing space) parsed as tbis.commit
C4_Witness ==
    /\ key = K_tbis \o <<".">> \o V_commit \o <<" ">>
    /\ parsed = Some(ProjectVerb(K_tbis, V_commit))

\* C5: whenever run_o2 dispatches a PortStatus key, the port string denotes
\* a TCP port in 1..65535.
C5_PortInRange ==
    (ReachedRunner /\ IsPortStatus) =>
        LET n == StripLeadingZeros(parsed[1].port) IN
        /\ n # <<"0">>
        /\ NumeralLeq(n, X_MaxPort)

\* C8 (as stated): every rejection message contains the offending key or
\* token exactly once.
C8_ExactlyOnce ==
    (O2Done /\ (ParseRejected \/ VerbRejected) /\ Offending # <<>>) =>
        Occurrences(result[1].text, Offending) = 1

\* C8 (amended): every rejection message echoes the offending key or token
\* verbatim between single quotes, so it contains it at least once; the
\* fixed wording of the message may contain it again.
C8_EchoedQuoted ==
    (O2Done /\ (ParseRejected \/ VerbRejected)) =>
        /\ result[1].tag = "Err"
        /\ Occurrences(result[1].text, Quoted(Offending)) >= 1
        /\ Offending # <<>> => Occurrences(result[1].text, Offending) >= 1

\* tbis.deploy was rejected with a message naming deploy
C8_Witness ==
    /\ O2Done
    /\ VerbRejected
    /\ Offending = K_deploy
    /\ Occurrences(result[1].text, K_deploy) = 1

\* C10: in every invocation of run_o2 the shell runner is called at most
\* once, and only after the key has parsed and, for ProjectVerb, the verb
\* has been found in the table; a rejected key returns its error with no
\* child process started.
C10_ValidateBeforeSpawn ==
    /\ Len(spawned) <= 1
    /\ ReachedRunner =>
           /\ Accepted
           /\ IsProjectVerb => (script # None /\ script[1].tag = "Ok")
    /\ (ParseRejected \/ VerbRejected) =>
           /\ spawned = <<>>
           /\ child = None
    /\ (O2Done /\ (ParseRejected \/ VerbRejected)) => result[1].tag = "Err"
    /\ child # None => ReachedRunner

\* a rejected invocation has returned, and an accepted one has run its child
C10_Witness ==
    /\ O2Done
    /\ \/ VerbRejected /\ spawned = <<>>
       \/ Len(spawned) = 1 /\ child # None /\ IsPortStatus

----------------------------------------------------------------------------
\* Properties of the port inspector and of the shell runner.

PortsDone == op = "port_status" /\ pc = "done"

LibPortsDone == op = "lib_port_status" /\ pc = "done"

ShellDone == op \in {"run_shell_output", "kill_port"} /\ pc = "done"

RunnerFailed == result # None /\ result[1].tag = "Err"

RunnerSucceeded == result # None /\ result[1].tag = "Ok"

\* empty or made of whitespace only
Blank(s) == \A i \in 1..Len(s) : s[i] \in {" ", "\t", "\n", "\r"}

Decimal(n) ==
    CASE n = -1 -> <<"-", "1">>
      [] n = 0 -> <<"0">>
      [] n = 1 -> <<"1">>
      [] n = 127 -> <<"1", "2", "7">>

\* C6: whatever text the probe returns, a record with listening = false has
\* no pid and no cmd.
C6_NotListeningNoPidNoCmd ==
    /\ PortsDone =>
           (~record[1].text.listening =>
                record[1].text.pid = None /\ record[1].text.cmd = None)
    /\ LibPortsDone =>
           (~record[1].text.listening =>
                record[1].text.pid = None /\ record[1].text.command = None)

\* C7 (as stated): port_status always returns a record, and err is present
\* iff the shell runner reported a failure (then listening is false and
\* pid/cmd are absent); whenever the runner succeeded, err is absent.
C7_ErrIffRunnerFailed ==
    PortsDone =>
        /\ record[1].tag = "Ok"
        /\ record[1].text.err # None <=> RunnerFailed
        /\ RunnerFailed =>
               /\ ~record[1].text.listening
               /\ record[1].text.pid = None
               /\ record[1].text.cmd = None

\* C7 (amended): port_status always returns a record, and err is present
\* iff the shell runner reported a failure or its output, not blank,
\* contains "not found" or "ERROR:"; whenever err is present listening is
\* false and pid/cmd are absent; otherwise err is absent.
C7_ErrIffFailedOrFlagged ==
    PortsDone =>
        /\ record[1].tag = "Ok"
        /\ record[1].text.err # None <=>
               \/ RunnerFailed
               \/ /\ RunnerSucceeded
                  /\ ~Blank(result[1].text)
                  /\ \/ Occurrences(result[1].text, X_NotFound) > 0
                     \/ Occurrences(result[1].text, X_ErrorTag) > 0
        /\ record[1].text.err # None =>
               /\ ~record[1].text.listening
               /\ record[1].text.pid = None
               /\ record[1].text.cmd = None

\* the probe's child exited non-zero and the record carries the message
C7_Witness ==
    /\ PortsDone
    /\ RunnerFailed
    /\ child[1].code = Some(1)
    /\ record[1].text.err # None
    /\ ~record[1].text.listening

\* C9 (as stated): the runner's text is stdout if stderr is empty, stderr if
\* stdout is empty, otherwise stdout, one newline, stderr; returned as
\* success on exit status zero, and as a failure carrying the exit code (-1
\* when there is none) and that text otherwise.
C9_ComposeByEmptiness ==
    (ShellDone /\ child[1].spawn_err = None) =>
        LET so == from_utf8_lossy(child[1].stdout)
            se == from_utf8_lossy(child[1].stderr)
            text == IF se = <<>> THEN so
                    ELSE IF so = <<>> THEN se
                    ELSE so \o <<"\n">> \o se
            code == IF child[1].code = None THEN -1 ELSE child[1].code[1]
        IN IF code = 0
           THEN result = Some(Ok(text))
           ELSE result = Some(Err(X_CommandFailed \o Decimal(code)
                                  \o X_ExitClose \o text))

\* C9 (amended): the runner's text is stdout if stderr is empty or only
\* whitespace, else stderr if stdout is empty or only whitespace, otherwise
\* stdout, one newline, stderr; returned as success on exit status zero,
\* and as a failure carrying the exit code (-1 when there is none) and that
\* text otherwise.
C9_ComposeByBlankness ==
    (ShellDone /\ child[1].spawn_err = None) =>
        LET so == from_utf8_lossy(child[1].stdout)
            se == from_utf8_lossy(child[1].stderr)
            text == IF Blank(se) THEN so
                    ELSE IF Blank(so) THEN se
                    ELSE so \o <<"\n">> \o se
            code == IF child[1].code = None THEN -1 ELSE child[1].code[1]
        IN IF code = 0
           THEN result = Some(Ok(text))
           ELSE result = Some(Err(X_CommandFailed \o Decimal(code)
                                  \o X_ExitClose \o text))

\* both streams carried text and the child was ended by a signal
C9_Witness ==
    /\ op = "run_shell_output"
    /\ pc = "done"
    /\ child[1].spawn_err = None
    /\ ~Blank(child[1].stdout)
    /\ ~Blank(child[1].stderr)
    /\ child[1].code = None
    /\ RunnerFailed
    /\ Occurrences(result[1].text, <<"-", "1">>) = 1

=============================================================================
